---- MODULE Spec2Model ----
(***************************************************************************)
(* Model of pyscf/dh/dhutil.py: the HybridDict tensor store (a dict whose  *)
(* values are numpy arrays, plain python objects or h5py datasets of one   *)
(* backing file) and the batch planner gen_batch / calc_batch_size.        *)
(*                                                                         *)
(* A store is three maps:                                                  *)
(*   tensors : key -> value          the dict itself                       *)
(*   chkfile : name -> dataset id    the links of the backing HDF5 file    *)
(*   dsets   : dataset id -> object  the dataset objects of that file      *)
(* An HDF5 dataset whose link was deleted stays readable through a handle  *)
(* that is still open, so dataset objects have an identity of their own.   *)
(* Closing the file (dump) invalidates every handle: a stale handle has    *)
(* id 0.                                                                   *)
(***************************************************************************)
EXTENDS Integers, Sequences, FiniteSets, TLC

\* ---------------------------------------------------------------- bounds
MaxLen == 2      \* tensors are one-dimensional, of shape (1,) .. (MaxLen,)
MaxDs == 2       \* dataset objects alive at once in the backing file
MaxOps == 3      \* calls made on the store after the initial state (the
                 \* empty store of Spec, the aliased dataset of SpecAlias)

Keys == {"a", "b"}
Ids == 1..MaxDs

\* A shape is a tuple; the argument shape=None is the empty tuple here.
NoneShape == <<>>
Shapes == {<<n>> : n \in 1..MaxLen}
Zeros(shape) == [i \in 1..shape[1] |-> 0]
Ones(n) == [i \in 1..n |-> 1]

\* ---------------------------------------------------------------- values
\* kind "none": no value (None, or a key that is absent)
\* kind "nd":   numpy array with a shape and content; id is the identity of
\*              the array object once the store holds it (0: an array the
\*              store does not hold). The dict keeps arrays by reference:
\*              the keys that hold one array object carry the same id and
\*              the same content
\* kind "list": a python list: content, but no attribute 'shape'
\* kind "ds":   h5py.Dataset handle of dataset object id (0: handle is closed)
\* kind "ndobj": numpy.asarray(None), a 0-d object array
None == [kind |-> "none", shape |-> <<>>, dat |-> <<>>, id |-> 0]
Nd(shape, dat) == [kind |-> "nd", shape |-> shape, dat |-> dat, id |-> 0]
List(dat) == [kind |-> "list", shape |-> <<>>, dat |-> dat, id |-> 0]
Handle(id) == [kind |-> "ds", shape |-> <<>>, dat |-> <<>>, id |-> id]
NdNone == [kind |-> "ndobj", shape |-> <<>>, dat |-> <<>>, id |-> 0]
Raised(e) == [kind |-> e, shape |-> <<>>, dat |-> <<>>, id |-> 0]

NoDs == [shape |-> <<>>, dat |-> <<>>]
NoFile == [k \in Keys |-> NoDs]
NoDict == [k \in Keys |-> None]

\* The arrays and lists a caller passes as data.
Arrays == {Nd(<<n>>, Ones(n)) : n \in 1..MaxLen}
Lists == {List(Ones(1))}

\* The store: the dict, the links and the dataset objects of its backing
\* file; the checkpoint files of the last dump; the store the last pick made;
\* the last call (its name, key and shape argument, the branch create or
\* delete took, the exception it raised) and the value it returned; the
\* number of calls made since the initial state.
\* The planner: the arguments of a call and its outcome.
\* The polarizability kernel: the Polar object it runs on (its functional xc,
\* whether it has a second functional mf_n, the keys of its tensors, whether
\* de was assigned); the position in kernel (0: not running); the keys the
\* stages of this run have created; the keys the last stage read; the
\* exception that ended the run; the number of runs started.
VARIABLES tensors, chkfile, dsets, ckpt, picked, last, ret, nops, args, out,
          mf_dh, pc, written, reads, raised, nruns

vars == <<tensors, chkfile, dsets, ckpt, picked, last, ret, nops, args, out,
          mf_dh, pc, written, reads, raised, nruns>>
storeVars == <<tensors, chkfile, dsets, ckpt, picked, last, ret, nops>>
kernelVars == <<mf_dh, pc, written, reads, raised, nruns>>

\* A call other than create has no shape argument.
Last(op, name, shape, path, err) ==
    [op |-> op, name |-> name, shape |-> shape, path |-> path, err |-> err]

Store(t, f, d) == [t |-> t, f |-> f, d |-> d]
Self == Store(tensors, chkfile, dsets)

\* One more call on the store, while the run has calls left.
Step == nops < MaxOps /\ nops' = nops + 1 /\ UNCHANGED <<args, out, kernelVars>>

\* name in self
Has(st, key) == st.t[key].kind /= "none"
\* isinstance(val, h5py.Dataset)
IsDataset(val) == val.kind = "ds"

\* HDF5 frees a dataset object once it has neither a link nor an open handle.
Collect(st) ==
    LET live == {st.f[k] : k \in Keys}
                    \cup {st.t[k].id : k \in {x \in Keys : IsDataset(st.t[x])}}
    IN  Store(st.t, st.f, [i \in Ids |-> IF i \in live THEN st.d[i] ELSE NoDs])

\* The content and shape numpy sees in a value: numpy.asarray(val).
AsArray(st, val) ==
    CASE val.kind = "nd" -> val
      [] val.kind = "list" -> Nd(<<Len(val.dat)>>, val.dat)
      [] val.kind = "ds" -> IF val.id = 0 THEN Raised("ValueError")
                            ELSE Nd(st.d[val.id].shape, st.d[val.id].dat)
      [] OTHER -> NdNone

\* HybridDict.load: dict.get gives None for a missing key.
loadSt(st, key) == AsArray(st, st.t[key])

Result(st, path, err, val) == [st |-> st, path |-> path, err |-> err, ret |-> val]

\* delete without the except clause: the KeyError of h5py for a name without
\* a link leaves the method, the key already popped.
deleteRes_NoExcept(st, key) ==
    LET val == st.t[key]
        t2 == [st.t EXCEPT ![key] = None]
    IN  IF ~Has(st, key) THEN Result(st, "", "KeyError", None)
        ELSE IF IsDataset(val) /\ st.f[key] = 0
        THEN Result(Collect(Store(t2, st.f, st.d)), "except", "KeyError", None)
        ELSE IF IsDataset(val)
        THEN Result(Collect(Store(t2, [st.f EXCEPT ![key] = 0], st.d)), "del", "none", None)
        ELSE Result(Store(t2, st.f, st.d), "pop", "none", None)

\* HybridDict.delete. dict.pop raises KeyError for a missing key; the
\* KeyError of h5py for a name without a link is caught. path names the
\* branch taken: "pop" (the value is no dataset), "del" (line 93 removed the
\* link of the name), "except" (lines 94-96: the name had no link).
deleteRes(st, key) ==
    LET val == st.t[key]
        t2 == [st.t EXCEPT ![key] = None]
    IN  IF ~Has(st, key) THEN Result(st, "", "KeyError", None)
        ELSE IF IsDataset(val) /\ st.f[key] = 0
        THEN Result(Collect(Store(t2, st.f, st.d)), "except", "none", None)
        ELSE IF IsDataset(val)
        THEN Result(Collect(Store(t2, [st.f EXCEPT ![key] = 0], st.d)), "del", "none", None)
        ELSE Result(Store(t2, st.f, st.d), "pop", "none", None)

\* ------------------------------------------------------------------ create
\* create without the zero fill of line 71
ZeroFill_Skipped(st, name) == st

\* self[name][:] = 0: the dataset, or the array object, is zeroed in place,
\* under every key that holds it.
ZeroFill(st, name) ==
    LET val == st.t[name]
    IN  IF IsDataset(val)
        THEN Store(st.t, st.f,
                   [st.d EXCEPT ![val.id] = [shape |-> @.shape, dat |-> Zeros(@.shape)]])
        ELSE Store([k \in Keys |->
                       IF st.t[k].kind = "nd" /\ st.t[k].id = val.id
                       THEN [st.t[k] EXCEPT !.dat = Zeros(val.shape)]
                       ELSE st.t[k]],
                   st.f, st.d)

\* The exception self[name].shape raises: AttributeError for a value without
\* the attribute, ValueError for a handle h5py has closed, else "none".
ShapeErr(val) ==
    CASE val.kind = "nd" -> "none"
      [] val.kind = "ds" /\ val.id /= 0 -> "none"
      [] val.kind = "ds" /\ val.id = 0 -> "ValueError"
      [] OTHER -> "AttributeError"

HasShape(val) == ShapeErr(val) = "none"

\* self[name].shape, of a value that has one
ShapeOf(st, val) == IF val.kind = "ds" THEN st.d[val.id].shape ELSE val.shape

\* dict.setdefault(name, val)
SetDefault(st, name, val) ==
    IF Has(st, name) THEN st ELSE Store([st.t EXCEPT ![name] = val], st.f, st.d)

FreeIds(st) == {i \in Ids : st.d[i] = NoDs}

\* self.chkfile.create_dataset(name, shape=shape, dtype=dtype, data=data)
\* followed by self.setdefault(name, self.chkfile[name]).
\* h5py refuses a name that is linked and a shape the data does not fill.
createDataset(st, name, data, shape) ==
    LET arr == AsArray(st, data)
        shp == IF shape /= NoneShape THEN shape ELSE arr.shape
        dat == IF data /= None THEN arr.dat ELSE Zeros(shp)
        id == CHOOSE i \in FreeIds(st) : \A j \in FreeIds(st) : i <= j
        made == Store(st.t, [st.f EXCEPT ![name] = id],
                      [st.d EXCEPT ![id] = [shape |-> shp, dat |-> dat]])
        st2 == SetDefault(made, name, Handle(id))
    IN  IF st.f[name] /= 0 THEN Result(st, "alloc", "ValueError", None)
        ELSE IF data /= None /\ shape /= NoneShape /\ Len(arr.dat) /= shape[1]
        THEN Result(st, "alloc", "ValueError", None)
        ELSE IF FreeIds(st) = {} THEN Result(st, "alloc", "bound", None)
        ELSE Result(st2, "alloc", "none", st2.t[name])

\* The identity an array object gets when the store comes to hold it: the
\* least one no key holds (0 when every key holds an array of its own: the
\* dict then keeps what it has).
ArrayIds(st) == {st.t[k].id : k \in {x \in Keys : st.t[x].kind = "nd"}}
FreshArray(st) ==
    LET free == (1..Cardinality(Keys)) \ ArrayIds(st)
    IN  IF free = {} THEN 0 ELSE CHOOSE i \in free : \A j \in free : i <= j

\* The value as the dict holds it: an array by reference.
Held(st, val) ==
    IF val.kind = "nd" /\ val.id = 0 THEN [val EXCEPT !.id = FreshArray(st)] ELSE val

\* Lines 77-87: the allocation, on a store where name may still be present.
createNew(st, name, data, incore, shape) ==
    IF ~incore THEN createDataset(st, name, data, shape)
    ELSE IF data /= None
    THEN LET st2 == SetDefault(st, name, Held(st, data))
         IN  Result(st2, "alloc", "none", st2.t[name])
    ELSE IF shape /= NoneShape
    THEN LET st2 == SetDefault(st, name, Held(st, Nd(shape, Zeros(shape))))
         IN  Result(st2, "alloc", "none", st2.t[name])
    ELSE Result(st, "alloc", "ValueError", None)

\* HybridDict.create. The try block covers only the shape test and the
\* zero fill; delete runs only in the except clause. path names the branch
\* taken: "zero" (lines 70-72), "except" (line 76, then the allocation),
\* "alloc" (the allocation alone).
createSt(st, name, data, incore, shape) ==
    IF ~Has(st, name) THEN createNew(st, name, data, incore, shape)
    ELSE IF ~HasShape(st.t[name])
    THEN LET r == createNew(deleteRes(st, name).st, name, data, incore, shape)
         IN  Result(r.st, "except", r.err, r.ret)
    ELSE IF ShapeOf(st, st.t[name]) = shape
    THEN LET st2 == ZeroFill(st, name) IN Result(st2, "zero", "none", st2.t[name])
    ELSE createNew(st, name, data, incore, shape)

\* The values a caller can pass as data: nothing, a new array, a list, or an
\* array or a dataset handle the store holds.
DataArgs(st) ==
    {None} \cup Arrays \cup Lists
        \cup {st.t[k] : k \in {x \in Keys : IsDataset(st.t[x]) /\ st.t[x].id /= 0}}
        \cup {st.t[k] : k \in {x \in Keys : st.t[x].kind = "nd"}}

\* create_dataset with neither data nor shape makes an HDF5 null dataset:
\* not a tensor, left out of the inputs.
create(name, data, incore, shape) ==
    /\ Step
    /\ incore \/ data /= None \/ shape /= NoneShape
    /\ LET r == createSt(Self, name, data, incore, shape)
       IN  /\ r.err /= "bound"
           /\ last' = Last("create", name, shape, r.path, r.err)
           /\ tensors' = r.st.t
           /\ chkfile' = r.st.f
           /\ dsets' = r.st.d
           /\ ret' = r.ret
    /\ UNCHANGED <<ckpt, picked>>

\* HybridDict.load
load(key) ==
    /\ Step
    /\ LET arr == loadSt(Self, key)
       IN  IF arr.kind = "ValueError"
           THEN /\ last' = Last("load", key, NoneShape, "", "ValueError")
                /\ ret' = None
           ELSE /\ last' = Last("load", key, NoneShape, "", "none")
                /\ ret' = arr
    /\ UNCHANGED <<tensors, chkfile, dsets, ckpt, picked>>

delete(key) ==
    /\ Step
    /\ LET r == deleteRes(Self, key)
       IN  /\ last' = Last("delete", key, NoneShape, r.path, r.err)
           /\ tensors' = r.st.t
           /\ chkfile' = r.st.f
           /\ dsets' = r.st.d
           /\ ret' = r.ret
    /\ UNCHANGED <<ckpt, picked>>

\* ------------------------------------------------------------ dump, pick
\* HybridDict.get_dataset_keys: the names linked in a file
get_dataset_keys(f) == {k \in Keys : f[k] /= 0}

\* The dict dump pickles: every value that is not a dataset.
Pickled(st) ==
    [k \in Keys |-> IF Has(st, k) /\ ~IsDataset(st.t[k]) THEN st.t[k] ELSE None]

\* The copy of the backing file: its linked datasets, by name.
FileCopy(st) == [k \in Keys |-> IF st.f[k] /= 0 THEN st.d[st.f[k]] ELSE NoDs]

\* The store after dump: closing the file closes every handle and drops the
\* datasets without a link; every name linked in the reopened file is then
\* bound to its dataset, whatever the key held.
dumpSt(st) ==
    Collect(Store([k \in Keys |->
                      IF k \in get_dataset_keys(st.f) THEN Handle(st.f[k])
                      ELSE IF IsDataset(st.t[k]) THEN Handle(0)
                      ELSE st.t[k]],
                  st.f, st.d))

dump ==
    /\ Step
    /\ ckpt' = [made |-> TRUE, h5 |-> FileCopy(Self), dat |-> Pickled(Self)]
    /\ LET st == dumpSt(Self)
       IN  /\ tensors' = st.t
           /\ chkfile' = st.f
           /\ dsets' = st.d
    /\ last' = Last("dump", "", NoneShape, "", "none")
    /\ ret' = None
    /\ UNCHANGED picked

\* The dataset object the file of a picked store holds for a key.
IdOf(k) == IF k = "a" THEN 1 ELSE 2

\* HybridDict.pick: a new store on a copy of the dataset file, its datasets
\* bound first, the pickled dict merged over them.
pickSt(h5, dat) ==
    LET f == [k \in Keys |-> IF h5[k] /= NoDs THEN IdOf(k) ELSE 0]
        d == [i \in Ids |-> IF \E k \in Keys : IdOf(k) = i /\ h5[k] /= NoDs
                            THEN h5[CHOOSE k \in Keys : IdOf(k) = i]
                            ELSE NoDs]
        t == [k \in Keys |-> IF dat[k] /= None THEN dat[k]
                             ELSE IF k \in get_dataset_keys(f) THEN Handle(f[k])
                             ELSE None]
    IN  Store(t, f, d)

pick ==
    /\ Step
    /\ ckpt.made
    /\ picked' = pickSt(ckpt.h5, ckpt.dat)
    /\ last' = Last("pick", "", NoneShape, "", "none")
    /\ ret' = None
    /\ UNCHANGED <<tensors, chkfile, dsets, ckpt>>


\* ----------------------------------------------------------------- planner
MaxRange == 4    \* minval and maxval are in -MaxRange .. MaxRange
MaxChunk == 3    \* nbatch is in -MaxChunk .. MaxChunk
MaxUnit == 4     \* unit_flop is 0 .. MaxUnit granules
MaxPre == 4      \* pre_flop is 0 .. MaxPre granules
MaxMem == 5      \* mem_avail is 0 .. MaxMem MB

Done(err, val) == [done |-> TRUE, err |-> err, val |-> val]

\* list(range(i, stop, step)) for a step that is not 0
RECURSIVE Range(_, _, _)
Range(i, stop, step) ==
    IF (step > 0 /\ i < stop) \/ (step < 0 /\ i > stop)
    THEN <<i>> \o Range(i + step, stop, step)
    ELSE <<>>

\* gen_batch without the cut of the last slice at maxval
gen_batch_Uncut(minval, maxval, nbatch) ==
    IF nbatch = 0 THEN Done("ValueError", <<>>)
    ELSE LET r == Range(minval, maxval, nbatch)
         IN  Done("none", [k \in 1..Len(r) |-> <<r[k], r[k] + nbatch>>])

\* gen_batch: slice(start, stop) is the pair <<start, stop>>; range raises
\* ValueError for a step of 0.
gen_batch(minval, maxval, nbatch) ==
    IF nbatch = 0 THEN Done("ValueError", <<>>)
    ELSE LET r == Range(minval, maxval, nbatch)
         IN  Done("none",
                  [k \in 1..Len(r) |->
                      <<r[k], IF r[k] + nbatch < maxval THEN r[k] + nbatch ELSE maxval>>])

BatchArgs ==
    [minval : -MaxRange..MaxRange, maxval : -MaxRange..MaxRange,
     nbatch : -MaxChunk..MaxChunk]

call_gen_batch ==
    /\ ~out.done
    /\ out' = gen_batch(args.minval, args.maxval, args.nbatch)
    /\ UNCHANGED <<storeVars, args, kernelVars>>

\* 1024 ** 2
MB == 1024 * 1024
\* Element counts are drawn in granules of 65536 float64: 0.5 MB each.
Granule == 256 * 256

\* 5 MB times max_memory = 0.8 * mem_avail - pre_flop * 8 / 1024 ** 2, and
\* 5 MB times the divisor unit_flop * 8 / 1024 ** 2: whole numbers with the
\* quotient of the code.
MaxMemory5(mem_avail, pre_flop) == 4 * mem_avail * MB - 5 * pre_flop * 8
UnitCost5(unit_flop) == 5 * unit_flop * 8

Max(a, b) == IF a >= b THEN a ELSE b

\* calc_batch_size without the floor of 1
calc_batch_size_NoFloor(unit_flop, mem_avail, pre_flop) ==
    IF unit_flop = 0 THEN Done("ZeroDivisionError", 0)
    ELSE Done("none", MaxMemory5(mem_avail, pre_flop) \div UnitCost5(unit_flop))

\* calc_batch_size: float // 0.0 raises ZeroDivisionError.
calc_batch_size(unit_flop, mem_avail, pre_flop) ==
    IF unit_flop = 0 THEN Done("ZeroDivisionError", 0)
    ELSE Done("none",
              Max(MaxMemory5(mem_avail, pre_flop) \div UnitCost5(unit_flop), 1))

UnitFlops == {u * Granule : u \in 0..MaxUnit}
MemAvails == 0..MaxMem
PreFlops == {p * Granule : p \in 0..MaxPre}
CalcArgs == [unit_flop : UnitFlops, mem_avail : MemAvails, pre_flop : PreFlops]

call_calc_batch_size ==
    /\ ~out.done
    /\ out' = calc_batch_size(args.unit_flop, args.mem_avail, args.pre_flop)
    /\ UNCHANGED <<storeVars, args, kernelVars>>

\* ------------------------------------------------- polarizability kernel
\* polar/rdfdh.py: kernel runs the stages of a Polar object in a fixed order.
\* A stage reads keys of mf_dh.tensors with tensors.load(key) or tensors[key]
\* and writes keys with tensors.create(key, ...). Only the keys are modelled:
\* the store of a Polar object is the set of keys it holds.
MaxRuns == 2     \* calls of kernel on one Polar object

\* The functionals a Polar object is built with, and the class
\* dft.numint.NumInt()._xc_type gives each of them.
XCs == {"HF", "LDA,VWN", "PBE", "B3LYPg", "TPSS"}
xc_type(xc) ==
    CASE xc = "HF" -> "HF"
      [] xc = "LDA,VWN" -> "LDA"
      [] xc \in {"PBE", "B3LYPg"} -> "GGA"
      [] OTHER -> "MGGA"

\* The calls of kernel, in order (lines 15-29).
Schedule(xc) ==
    <<"run_scf", "prepare_H_1", "prepare_integral", "prepare_xc_kernel",
      "prepare_pt2", "prepare_lagrangian", "prepare_D_r", "prepare_U_1">>
    \o (IF xc_type(xc) = "GGA"
        THEN <<"prepare_dmU", "prepare_polar_Ax1_gga">> ELSE <<>>)
    \o <<"prepare_pdA_F_0_mo", "prepare_pdA_Y_ia_ri", "prepare_pt2_deriv",
         "prepare_polar">>

\* The stages of the parent class dh.rdfdh.RDFDH, which is not among the
\* sources. The keys they leave are the keys the stages of Polar read and do
\* not create, each given to the stage named for it.
ParentStages ==
    {"run_scf", "prepare_integral", "prepare_xc_kernel", "prepare_pt2",
     "prepare_lagrangian", "prepare_D_r"}
ParentCreates(name, xc) ==
    CASE name = "prepare_integral" -> {"Y_mo_ri"}
      [] name = "prepare_xc_kernel" -> {"rho", "fxc" \o xc}
      [] name = "prepare_pt2" -> {"t_ijab", "G_ia"}
      [] name = "prepare_D_r" -> {"D_r"}
      [] OTHER -> {}

\* A stage is a sequence of operations on mf_dh.tensors, in the order of its
\* lines:
\*   Load(k)         x = tensors.load(k): never raises, x is numpy.asarray(None)
\*                   for a missing key
\*   Item(k)         tensors[k]: KeyError for a missing key
\*   Use(ks, e)      the first line that computes with the arrays loaded for
\*                   ks: raises e if one of them is asarray(None)
\*   Create(k)       tensors.create(k, data): setdefault, stores nothing on
\*                   a key that is present
\*   CreateShape(k)  tensors.create(k, shape=...): zeros under a new key, or
\*                   the stored tensor zeroed in place; the stage then fills it
\* Calls into pyscf (integrals, CPKS solver, grids) are outside the sources
\* and are taken to return, whatever array they are given.
Load(k) == [op |-> "load", keys |-> {k}, err |-> "none"]
Item(k) == [op |-> "item", keys |-> {k}, err |-> "KeyError"]
Use(ks, e) == [op |-> "use", keys |-> ks, err |-> e]
Create(k) == [op |-> "create", keys |-> {k}, err |-> "none"]
CreateShape(k) == [op |-> "create_shape", keys |-> {k}, err |-> "none"]

\* The state of a stage that runs: the keys of the store, the keys this run
\* wrote, the keys the stage read so far, the keys whose loaded array is
\* asarray(None), the exception raised.
Frame(t, w) == [tensors |-> t, written |-> w, reads |-> {}, none |-> {}, err |-> "none"]

exec_op(o, s) ==
    CASE o.op = "load" ->
            [s EXCEPT !.reads = @ \cup o.keys, !.none = @ \cup (o.keys \ s.tensors)]
      [] o.op = "item" ->
            [s EXCEPT !.reads = @ \cup o.keys,
                      !.err = IF o.keys \subseteq s.tensors THEN "none" ELSE o.err]
      [] o.op = "use" ->
            [s EXCEPT !.err = IF o.keys \cap s.none = {} THEN "none" ELSE o.err]
      [] o.op = "create" ->
            [s EXCEPT !.tensors = @ \cup o.keys,
                      !.written = @ \cup (o.keys \ s.tensors)]
      [] OTHER ->
            [s EXCEPT !.tensors = @ \cup o.keys, !.written = @ \cup o.keys]

\* The operations from the i-th on, up to the first that raises.
RECURSIVE exec(_, _, _)
exec(ops, i, s) ==
    IF i > Len(ops) \/ s.err /= "none" THEN s
    ELSE exec(ops, i + 1, exec_op(ops[i], s))

\* One stage of the run; an exception leaves kernel, with the keys the stage
\* created before it. de is assigned by the stage that computes it.
stage(ops, de) ==
    LET s == exec(ops, 1, Frame(mf_dh.tensors, written))
    IN  /\ reads' = s.reads
        /\ written' = s.written
        /\ raised' = s.err
        /\ mf_dh' = [mf_dh EXCEPT !.tensors = s.tensors,
                                  !.de = IF s.err = "none" /\ de THEN TRUE ELSE @]
        /\ pc' = IF s.err = "none" THEN pc + 1 ELSE 0
        /\ UNCHANGED <<storeVars, args, out, nruns>>

\* kernel is at the call of the stage name.
at(name) ==
    /\ pc \in 1..Len(Schedule(mf_dh.xc))
    /\ Schedule(mf_dh.xc)[pc] = name

\* kernel is entered: nothing was written by this run yet.
kernel ==
    /\ pc = 0
    /\ nruns < MaxRuns
    /\ nruns' = nruns + 1
    /\ pc' = 1
    /\ written' = {}
    /\ reads' = {}
    /\ raised' = "none"
    /\ UNCHANGED <<storeVars, args, out, mf_dh>>

\* return mf_dh.de
kernel_return ==
    /\ pc = Len(Schedule(mf_dh.xc)) + 1
    /\ pc' = 0
    /\ UNCHANGED <<storeVars, args, out, mf_dh, written, reads, raised, nruns>>

\* A stage of the parent class leaves its keys in the store; written holds
\* the keys of the stages of Polar only.
parent_stage(name) ==
    /\ at(name)
    /\ mf_dh' = [mf_dh EXCEPT !.tensors = @ \cup ParentCreates(name, mf_dh.xc)]
    /\ reads' = {}
    /\ raised' = "none"
    /\ pc' = pc + 1
    /\ UNCHANGED <<storeVars, args, out, written, nruns>>

prepare_H_1_ops == <<Create("H_1_ao"), Create("H_1_mo")>>

prepare_H_1 ==
    /\ at("prepare_H_1")
    /\ stage(prepare_H_1_ops, FALSE)

\* l.111: H_1_mo[:, sv, so]
prepare_U_1_ops ==
    <<Load("H_1_mo"), Use({"H_1_mo"}, "IndexError"), Create("U_1")>>

prepare_U_1 ==
    /\ at("prepare_U_1")
    /\ stage(prepare_U_1_ops, FALSE)

\* l.126: U_1[:, :, so]; l.128: C @ D_r; rho goes to ni.eval_xc
prepare_dmU_ops(xc) ==
    <<Load("U_1"), Load("D_r"), Load("rho"),
      Use({"U_1"}, "IndexError"), Use({"D_r"}, "ValueError"),
      Create("rhoU"), Create("rhoDr"), Create("kxc" \o xc)>>

prepare_dmU ==
    /\ at("prepare_dmU")
    /\ stage(prepare_dmU_ops(mf_dh.xc), FALSE)

\* l.229: rhoU[i], then rho0[1:] and rho2[1:] in _rks_gga_wv2; l.239:
\* U_1[:, :, so]
prepare_polar_Ax1_gga_ops(xc) ==
    <<Load("U_1"), Load("rho"), Load("rhoU"), Load("rhoDr"),
      Item("fxc" \o xc), Item("kxc" \o xc),
      Use({"rhoU", "rho", "rhoDr", "U_1"}, "IndexError"),
      Create("Ax1_contrib")>>

prepare_polar_Ax1_gga ==
    /\ at("prepare_polar_Ax1_gga")
    /\ stage(prepare_polar_Ax1_gga_ops(mf_dh.xc), FALSE)

\* l.144: pdA_F_0_mo += einsum("Apq, p -> Apq", U_1, self.e), on the copy of
\* H_1_mo
prepare_pdA_F_0_mo_ops(mf_n) ==
    <<Load("H_1_mo"), Load("U_1"), Use({"H_1_mo", "U_1"}, "ValueError"),
      Create("pdA_F_0_mo")>>
    \o (IF mf_n THEN <<Load("H_1_mo"), Create("pdA_F_0_mo_n")>> ELSE <<>>)

prepare_pdA_F_0_mo ==
    /\ at("prepare_pdA_F_0_mo")
    /\ stage(prepare_pdA_F_0_mo_ops(mf_dh.mf_n), FALSE)

\* l.168: U_1[:, :, so]
prepare_pdA_Y_ia_ri_ops ==
    <<Load("U_1"), Item("Y_mo_ri"), Use({"U_1"}, "IndexError"),
      Create("pdA_Y_ia_ri")>>

prepare_pdA_Y_ia_ri ==
    /\ at("prepare_pdA_Y_ia_ri")
    /\ stage(prepare_pdA_Y_ia_ri_ops, FALSE)

\* The two tensors are created (l.182-183) before t_ijab is read (l.188);
\* l.196: pdA_F_0_mo[:, sK, sI]
prepare_pt2_deriv_ops ==
    <<Load("pdA_F_0_mo"), Item("Y_mo_ri"), Item("pdA_Y_ia_ri"),
      CreateShape("pdA_G_ia"), CreateShape("pdA_D_rdm1"),
      Item("t_ijab"), Use({"pdA_F_0_mo"}, "IndexError")>>

prepare_pt2_deriv ==
    /\ at("prepare_pt2_deriv")
    /\ stage(prepare_pt2_deriv_ops, FALSE)

\* l.257: U_1[:, :, so]; l.260: G_ia[saux]; l.268: pdA_F_0_mo_n[:, sv, so]
get_SCR3_ops(mf_n) ==
    <<Load("U_1"), Load("G_ia"), Item("pdA_G_ia"), Item("Y_mo_ri"),
      Use({"U_1"}, "IndexError"), Use({"G_ia"}, "IndexError")>>
    \o (IF mf_n THEN <<Load("pdA_F_0_mo_n"), Use({"pdA_F_0_mo_n"}, "IndexError")>>
        ELSE <<>>)

\* l.284: U_1[:, sv, so], then H_1_mo + ...; l.286: get_SCR3; l.292 and
\* l.294: einsum with D_r and with pdA_D_rdm1; l.296: pdA_F_0_mo[:, so, so];
\* l.299: pol_corr -= 2 * tensors.load("Ax1_contrib"), unless xc is "HF"
prepare_polar_ops(xc, mf_n) ==
    <<Load("H_1_mo"), Load("U_1"), Load("pdA_F_0_mo"), Load("D_r"),
      Load("pdA_D_rdm1"),
      Use({"U_1"}, "IndexError"), Use({"H_1_mo"}, "TypeError")>>
    \o get_SCR3_ops(mf_n)
    \o <<Use({"D_r"}, "ValueError"), Use({"pdA_D_rdm1"}, "ValueError"),
         Use({"pdA_F_0_mo"}, "IndexError")>>
    \o (IF xc /= "HF"
        THEN <<Load("Ax1_contrib"), Use({"Ax1_contrib"}, "TypeError")>>
        ELSE <<>>)

\* prepare_polar assigns de at its end.
prepare_polar ==
    /\ at("prepare_polar")
    /\ stage(prepare_polar_ops(mf_dh.xc, mf_dh.mf_n), TRUE)

\* ------------------------------------------------------------------ runs
NoArgs == <<>>
NoOut == [done |-> FALSE, err |-> "none", val |-> <<>>]
NoStore == Store(NoDict, [k \in Keys |-> 0], [i \in Ids |-> NoDs])

\* The store as constructed, never called.
StoreIdle ==
    /\ tensors = NoDict
    /\ chkfile = [k \in Keys |-> 0]
    /\ dsets = [i \in Ids |-> NoDs]
    /\ ckpt = [made |-> FALSE, h5 |-> NoFile, dat |-> NoDict]
    /\ picked = NoStore
    /\ last = Last("init", "", NoneShape, "", "none")
    /\ ret = None
    /\ nops = 0

\* No Polar object: the kernel never runs.
NoPolar == [xc |-> "HF", mf_n |-> FALSE, tensors |-> {}, de |-> FALSE]
KernelIdle ==
    /\ mf_dh = NoPolar
    /\ pc = 0
    /\ written = {}
    /\ reads = {}
    /\ raised = "none"
    /\ nruns = 0

Init == StoreIdle /\ args = NoArgs /\ out = NoOut /\ KernelIdle

Next ==
    \/ \E name \in Keys, incore \in BOOLEAN, shape \in Shapes \cup {NoneShape} :
          \E data \in DataArgs(Self) : create(name, data, incore, shape)
    \/ \E key \in Keys : delete(key)
    \/ \E key \in Keys : load(key)
    \/ dump
    \/ pick

Spec == Init /\ [][Next]_vars

\* The store after two calls: t.create(k1, data, incore=False, shape=shape),
\* a dataset named k1, of zeros or of the data given, and
\* t.create(k2, t[k1]), which puts the handle of that dataset under a second
\* key. Up to MaxOps calls follow, so a run is MaxOps + 2 calls deep.
InitAlias ==
    /\ \E k1 \in Keys, shape \in Shapes :
          \E k2 \in Keys \ {k1}, data \in {None, Nd(shape, Ones(shape[1]))} :
             LET r1 == createSt(NoStore, k1, data, FALSE, shape)
                 r2 == createSt(r1.st, k2, r1.ret, TRUE, NoneShape)
             IN  /\ tensors = r2.st.t
                 /\ chkfile = r2.st.f
                 /\ dsets = r2.st.d
                 /\ last = Last("create", k2, NoneShape, r2.path, r2.err)
                 /\ ret = r2.ret
    /\ ckpt = [made |-> FALSE, h5 |-> NoFile, dat |-> NoDict]
    /\ picked = NoStore
    /\ nops = 0
    /\ args = NoArgs /\ out = NoOut /\ KernelIdle

SpecAlias == InitAlias /\ [][Next]_vars

\* One call of gen_batch, on any arguments of the bounds.
InitBatch == StoreIdle /\ args \in BatchArgs /\ out = NoOut /\ KernelIdle
NextBatch == call_gen_batch
SpecBatch == InitBatch /\ [][NextBatch]_vars

\* One call of calc_batch_size, on any arguments of the bounds.
InitCalc == StoreIdle /\ args \in CalcArgs /\ out = NoOut /\ KernelIdle
NextCalc == call_calc_batch_size
SpecCalc == InitCalc /\ [][NextCalc]_vars

\* Polar.__init__: a Polar object of any functional, with or without mf_n,
\* its tensors empty and de not assigned; then calls of kernel on it.
InitKernel ==
    /\ StoreIdle /\ args = NoArgs /\ out = NoOut
    /\ mf_dh \in [xc : XCs, mf_n : BOOLEAN, tensors : {{}}, de : {FALSE}]
    /\ pc = 0
    /\ written = {}
    /\ reads = {}
    /\ raised = "none"
    /\ nruns = 0

NextKernel ==
    \/ kernel
    \/ \E name \in ParentStages : parent_stage(name)
    \/ prepare_H_1
    \/ prepare_U_1
    \/ prepare_dmU
    \/ prepare_polar_Ax1_gga
    \/ prepare_pdA_F_0_mo
    \/ prepare_pdA_Y_ia_ri
    \/ prepare_pt2_deriv
    \/ prepare_polar
    \/ kernel_return

SpecKernel == InitKernel /\ [][NextKernel]_vars

\* ---------------------------------------------------------------- claims
Present(st) == {k \in Keys : Has(st, k)}
Post == Store(tensors', chkfile', dsets')

\* A request create can serve: data or a shape is given, and data written to
\* a dataset of a given shape fills it.
Servable(st, data, incore, shape) ==
    /\ data /= None \/ shape /= NoneShape
    /\ (~incore /\ data /= None /\ shape /= NoneShape)
          => Len(AsArray(st, data).dat) = shape[1]

\* What a value holds, whatever object it is.
Content(val) == [kind |-> val.kind, shape |-> val.shape, dat |-> val.dat]

\* The array a request describes.
Requested(st, data, shape) ==
    IF data /= None
    THEN Nd(IF shape /= NoneShape THEN shape ELSE AsArray(st, data).shape,
            AsArray(st, data).dat)
    ELSE Nd(shape, Zeros(shape))

\* C1: create on a key that holds a tensor of another shape than the one
\* requested (None included) does not fail and leaves the key holding the
\* requested tensor with the requested residency: the data given, or zeros of
\* the requested shape.
C1_CreateReplacesMismatched ==
    [][\A name \in Keys, incore \in BOOLEAN, shape \in Shapes \cup {NoneShape} :
         \A data \in DataArgs(Self) :
            ( /\ last'.op = "create" /\ last'.name = name
              /\ Has(Self, name)
              /\ HasShape(tensors[name])
              /\ ShapeOf(Self, tensors[name]) /= shape
              /\ Servable(Self, data, incore, shape)
              /\ create(name, data, incore, shape) )
            => ( /\ last'.err = "none"
                 /\ incore => Content(tensors'[name]) =
                       Content(IF data /= None THEN data ELSE Nd(shape, Zeros(shape)))
                 /\ ~incore => /\ IsDataset(tensors'[name])
                               /\ loadSt(Post, name) = Requested(Self, data, shape) )
      ]_vars

\* C2: every key's tensor lives in one place: no key holds an in-memory value
\* while the backing file has a dataset of its name, and every key that holds
\* a dataset has a dataset of its name in the backing file.
C2_OnePlace ==
    \A k \in Keys :
        /\ (Has(Self, k) /\ ~IsDataset(tensors[k])) => chkfile[k] = 0
        /\ IsDataset(tensors[k]) => chkfile[k] /= 0
\* Two keys hold open handles of one dataset object.
Aliased(st, k1, k2) ==
    /\ k1 /= k2
    /\ IsDataset(st.t[k1]) /\ IsDataset(st.t[k2])
    /\ st.t[k1].id /= 0
    /\ st.t[k1].id = st.t[k2].id

\* C3: delete of a key that holds a dataset, with or without a link of its
\* name left in the file, raises nothing and removes the key; and every other
\* key that held the same dataset is still present, with a load that succeeds
\* and returns what it returned before.
C3_DeleteAliasSafe ==
    [][(last'.op = "delete" /\ IsDataset(tensors[last'.name]))
       => LET k1 == last'.name
          IN  /\ last'.err = "none"
              /\ ~Has(Post, k1)
              /\ \A k2 \in Keys :
                    Aliased(Self, k1, k2)
                    => ( /\ Has(Post, k2)
                         /\ loadSt(Post, k2).kind = "nd"
                         /\ loadSt(Post, k2) = loadSt(Self, k2) )
      ]_vars

\* The state after the first delete: the key a dataset was named after has
\* been deleted, an alias of it is still in the store, and its load gives the
\* data the dataset was made with.
C3_Witness ==
    /\ last.op = "delete" /\ last.err = "none"
    /\ \E k \in Keys :
          /\ k /= last.name
          /\ IsDataset(tensors[k]) /\ tensors[k].id /= 0
          /\ \A n \in Keys : chkfile[n] /= tensors[k].id
          /\ loadSt(Self, k) = Nd(<<MaxLen>>, Ones(MaxLen))

\* The datasets a store holds: the linked ones and the ones open in a key.
Datasets(st) == {i \in Ids : st.d[i] /= NoDs}

\* Both keys of one dataset were deleted, neither call raising: first the key
\* the dataset was named after, which removed its link, then the alias,
\* whose name never had a link (the KeyError of h5py was caught). The file
\* holds no dataset.
C3_SecondDelete ==
    /\ nops = 2
    /\ last.op = "delete" /\ last.err = "none" /\ last.path = "except"
    /\ Present(Self) = {}
    /\ Datasets(Self) = {}

\* C5: create on a key whose tensor has the requested shape, in memory or on
\* disk, whatever its content: the key stays, its content is all zero, the
\* stored tensor is what is returned, its residency is kept, and the file
\* gets no dataset and the store no key.
C5_RecreateSameShape ==
    [][( /\ last'.op = "create"
         /\ Has(Self, last'.name)
         /\ HasShape(tensors[last'.name])
         /\ ShapeOf(Self, tensors[last'.name]) = last'.shape )
       => LET name == last'.name
          IN  /\ last'.err = "none"
              /\ Present(Post) = Present(Self)
              /\ Content(loadSt(Post, name)) = Content(Nd(last'.shape, Zeros(last'.shape)))
              /\ ret' = tensors'[name]
              /\ IsDataset(tensors'[name]) = IsDataset(tensors[name])
              /\ IsDataset(tensors[name]) => tensors'[name] = tensors[name]
              /\ chkfile' = chkfile
              /\ Datasets(Post) = Datasets(Self)
      ]_vars

\* A create took the zero-fill branch on a dataset that held data.
C5_Witness ==
    /\ last.op = "create" /\ last.path = "zero" /\ last.err = "none"
    /\ IsDataset(tensors[last.name])
    /\ \E k \in Keys : Aliased(Self, k, last.name)
    /\ loadSt(Self, last.name) = Nd(<<MaxLen>>, Zeros(<<MaxLen>>))

\* C6: load and delete of a key that is not in the store raise an error and
\* leave the dict and the backing file as they were.
C6_MissingKeyRaises ==
    [][(last'.op \in {"load", "delete"} /\ ~Has(Self, last'.name))
       => (last'.err /= "none" /\ Post = Self)
      ]_vars

\* The residency of each key of a store.
Residency(st) == [k \in Keys |-> IF IsDataset(st.t[k]) THEN "disk"
                                 ELSE IF Has(st, k) THEN "memory" ELSE "absent"]
Loads(st) == [k \in Keys |-> loadSt(st, k)]

\* C4: dump of a store that was never dumped, followed by pick of the two
\* files, gives a store with the same keys, the same residency of each key and
\* the same load of each key; and the dumped store keeps its keys and loads.
C4_DumpPickRoundTrip ==
    [][(~ckpt.made /\ dump)
         => LET new == pickSt(ckpt'.h5, ckpt'.dat)
            IN  /\ Present(new) = Present(Self)
                /\ Residency(new) = Residency(Self)
                /\ Loads(new) = Loads(Self)
                /\ Present(Post) = Present(Self)
                /\ Loads(Post) = Loads(Self)
      ]_vars
\* C7: for minval <= maxval and nbatch >= 1 gen_batch returns slices that are
\* contiguous and increasing, from minval to maxval, none empty, each of
\* length nbatch except possibly the last; none at all when minval = maxval.
C7_BatchCoverage ==
    (out.done /\ args.minval <= args.maxval /\ args.nbatch >= 1)
    => LET b == out.val
           n == Len(out.val)
       IN  /\ out.err = "none"
           /\ (args.minval = args.maxval) <=> (n = 0)
           /\ n > 0 => (b[1][1] = args.minval /\ b[n][2] = args.maxval)
           /\ \A i \in 1..n :
                 /\ b[i][1] < b[i][2]
                 /\ b[i][2] - b[i][1] <= args.nbatch
           /\ \A i \in 1..(n - 1) :
                 /\ b[i + 1][1] = b[i][2]
                 /\ b[i][2] - b[i][1] = args.nbatch

\* gen_batch cut a range from a negative start into several slices, the last
\* one shorter than nbatch.
C7_Witness ==
    /\ out.done /\ args.minval < 0 /\ args.nbatch >= 2
    /\ Len(out.val) >= 2
    /\ out.val[Len(out.val)][2] - out.val[Len(out.val)][1] < args.nbatch

\* C8: gen_batch with nbatch <= 0 raises an error, whatever minval and maxval.
C8_NonPositiveChunkRaises ==
    (out.done /\ args.nbatch <= 0) => out.err /= "none"

\* C9: calc_batch_size with unit_flop = 0 raises nothing and returns a chunk
\* size of at least 1.
C9_ZeroUnitCost ==
    (out.done /\ args.unit_flop = 0) => (out.err = "none" /\ out.val >= 1)

\* C10: for unit_flop > 0 calc_batch_size returns an integer >= 1; exactly 1
\* when 0.8 * mem_avail - pre_flop * 8 / 1024**2 <= 0; no more for a larger
\* unit_flop and no less for a larger mem_avail; and when it returns more than
\* 1, that many units and pre_flop take at most 0.8 * mem_avail.
C10_ChunkSize ==
    (out.done /\ args.unit_flop > 0)
    => /\ out.err = "none"
       /\ out.val >= 1
       /\ MaxMemory5(args.mem_avail, args.pre_flop) <= 0 => out.val = 1
       /\ \A u \in UnitFlops :
             u >= args.unit_flop
             => calc_batch_size(u, args.mem_avail, args.pre_flop).val <= out.val
       /\ \A m \in MemAvails :
             m >= args.mem_avail
             => calc_batch_size(args.unit_flop, m, args.pre_flop).val >= out.val
       /\ out.val > 1
             => out.val * UnitCost5(args.unit_flop) + 5 * args.pre_flop * 8
                   <= 4 * args.mem_avail * MB

\* calc_batch_size returned more than one unit with memory already taken.
C10_Witness ==
    /\ out.done /\ out.err = "none"
    /\ args.unit_flop > 0 /\ args.pre_flop > 0
    /\ out.val > 1

\* The keys the stages of Polar create and a stage reads.
Produced(xc) ==
    {"H_1_mo", "U_1", "rhoU", "rhoDr", "kxc" \o xc, "pdA_F_0_mo",
     "pdA_F_0_mo_n", "pdA_Y_ia_ri", "pdA_G_ia", "pdA_D_rdm1", "Ax1_contrib"}

\* C11: in every run of kernel, whatever the functional (of type GGA or not,
\* "HF" or not), every key a stage reads that the stages of Polar produce
\* was created by an earlier stage of the same run.
C11_ReadAfterWrite ==
    [][(pc \in 1..Len(Schedule(mf_dh.xc)) /\ pc' /= pc)
       => (reads' \cap Produced(mf_dh.xc)) \subseteq written
      ]_vars
====
